---- MODULE Spec2Model ----
(***************************************************************************)
(* Reading-Tracker: the analytics engine (dateUtils), the session store    *)
(* (storageUtils), the session logger and the badge evaluator.             *)
(*                                                                         *)
(* A calendar date as a Date object is a day number (days since            *)
(* 1970-01-01, local time); a date as a 'yyyy-MM-dd' string is the triple  *)
(* <<year, month, day>>, whose lexicographic order is the order of the     *)
(* zero-padded strings.  A wall-clock time 'HH:MM' is the pair <<h, m>>.   *)
(* Date.now() is the variable now, counted in whole days.                  *)
(***************************************************************************)
EXTENDS Integers, Sequences, FiniteSets, TLC

VARIABLES
  now,          \* Date.now(), in whole days
  store,        \* localStorage 'reading-tracker-sessions', parsed
  badgeStore,   \* localStorage 'reading-tracker-badges', parsed
  nextId,       \* serial of the next session id
  sessions,     \* ReadingTracker state: sessions
  stats,        \* ReadingTracker state: stats
  activeTab,    \* ReadingTracker state: activeTab
  newBadges,    \* BadgeSystem state: newBadges
  heatmapData,  \* the heatmap of the last render of the calendar
  pc,           \* what has been applied: an input, its result, or the application
  sessionsItem, \* what localStorage does with the sessions key
  badgesItem,   \* what localStorage does with the badges key
  prevBadges,   \* the badge store as the evaluator under test found it
  jsonData,     \* the JSON text of the last export, or the one to import
  importResult, \* what the last importData returned
  form,         \* SessionLogger state: startTime, endTime and the duration
  walk          \* calculateStreaks: uniqueDates, checkDate, currentStreak, checks

vars == <<now, store, badgeStore, nextId, sessions, stats, activeTab,
          newBadges, heatmapData, pc, sessionsItem, badgesItem,
          prevBadges, jsonData, importResult, form, walk>>

\* what the session logger and the tabs leave alone
ioVars == <<prevBadges, jsonData, importResult, form, walk>>

(***************************************************************************)
(* Bounds of the model                                                     *)
(***************************************************************************)
\* calendar days the application is observed for
MaxDays == 3
\* sessions ever created through the session logger
MaxCreated == 2
\* days before the reference date that an input session may be dated
WindowDays == 7
\* length of the session list handed to generateHeatmapData
MaxLen == 3
\* days of the longest run of session days the badge evaluator is shown
MaxRunDays == 10

(***************************************************************************)
(* date-fns                                                                *)
(***************************************************************************)
\* format(date, 'yyyy-MM-dd'): the civil date of a day number
formatDate(date) ==
  LET z == date + 719468
      era == z \div 146097
      doe == z - era * 146097
      yoe == (doe - doe \div 1460 + doe \div 36524 - doe \div 146096) \div 365
      doy == doe - (365 * yoe + yoe \div 4 - yoe \div 100)
      mp == (5 * doy + 2) \div 153
      d == doy - (153 * mp + 2) \div 5 + 1
      m == IF mp < 10 THEN mp + 3 ELSE mp - 9
      y == yoe + era * 400 + (IF m <= 2 THEN 1 ELSE 0)
  IN <<y, m, d>>

\* parseISO('yyyy-MM-dd'): the day number of a civil date
parseISO(str) ==
  LET y == IF str[2] <= 2 THEN str[1] - 1 ELSE str[1]
      era == y \div 400
      yoe == y - era * 400
      mp == IF str[2] > 2 THEN str[2] - 3 ELSE str[2] + 9
      doy == (153 * mp + 2) \div 5 + str[3] - 1
      doe == yoe * 365 + yoe \div 4 - yoe \div 100 + doy
  IN era * 146097 + doe - 719468

\* the days the analytics functions are called on: 2024-01-02, a Tuesday
\* after the turn of the year, and 2024-03-01, a Friday after a leap day
RefDayA == parseISO(<<2024, 1, 2>>)
RefDayB == parseISO(<<2024, 3, 1>>)

subDays(date, amount) == date - amount

differenceInDays(dateLeft, dateRight) == dateLeft - dateRight

\* Date.getDay(): 0 is Sunday; 1970-01-01 was a Thursday
getDay(date) == (date + 4) % 7

\* startOfWeek(date) with the default weekStartsOn, Sunday
startOfWeek_Sunday(date) == date - getDay(date)

\* startOfWeek(date, { weekStartsOn: 1 })
startOfWeek(date) ==
  LET day == getDay(date)
      diff == (IF day < 1 THEN 7 ELSE 0) + day - 1
  IN date - diff

\* endOfWeek(date, { weekStartsOn: 1 }): the last day of that week
endOfWeek(date) ==
  LET day == getDay(date)
      diff == (IF day < 1 THEN 0 - 7 ELSE 0) + 6 - (day - 1)
  IN date + diff

startOfMonth(date) ==
  LET c == formatDate(date) IN parseISO(<<c[1], c[2], 1>>)

endOfMonth(date) ==
  LET c == formatDate(date)
      nextMonth == IF c[2] = 12 THEN <<c[1] + 1, 1, 1>> ELSE <<c[1], c[2] + 1, 1>>
  IN parseISO(nextMonth) - 1

\* isWithinInterval(date, { start, end }) for a date at midnight, start at the
\* beginning of its day and end at the end of its day
isWithinInterval(date, start, end) == start <= date /\ date <= end

\* new Date(): the calendar day of the clock
Today(t) == t

(***************************************************************************)
(* dateUtils.calculateDuration                                             *)
(***************************************************************************)
\* the duration with an end before the start taken as the next day's
calculateDuration_WrapsMidnight(startTime, endTime) ==
  LET startTotalMinutes == startTime[1] * 60 + startTime[2]
      endTotalMinutes == endTime[1] * 60 + endTime[2]
  IN IF endTotalMinutes < startTotalMinutes
     THEN endTotalMinutes - startTotalMinutes + 24 * 60
     ELSE endTotalMinutes - startTotalMinutes

calculateDuration(startTime, endTime) ==
  LET startTotalMinutes == startTime[1] * 60 + startTime[2]
      endTotalMinutes == endTime[1] * 60 + endTime[2]
  IN endTotalMinutes - startTotalMinutes

\* useState('09:00'), useState('10:00') and the duration of the first render
DefaultForm ==
  [startTime |-> <<9, 0>>, endTime |-> <<10, 0>>,
   duration |-> calculateDuration(<<9, 0>>, <<10, 0>>)]

(***************************************************************************)
(* Array helpers                                                           *)
(***************************************************************************)
\* the order of 'yyyy-MM-dd' strings
StrLess(a, b) ==
  \/ a[1] < b[1]
  \/ a[1] = b[1] /\ a[2] < b[2]
  \/ a[1] = b[1] /\ a[2] = b[2] /\ a[3] < b[3]

RECURSIVE SortSet(_)
\* [...set].sort(): the strings of a set in ascending order
SortSet(S) ==
  IF S = {} THEN <<>>
  ELSE LET least == CHOOSE x \in S : \A y \in S : x = y \/ StrLess(x, y)
       IN <<least>> \o SortSet(S \ {least})

\* array.includes(x)
includes(arr, x) == \E i \in 1..Len(arr) : arr[i] = x

RECURSIVE SumDuration(_)
\* reduce((sum, session) => sum + session.duration, 0)
SumDuration(arr) ==
  IF arr = <<>> THEN 0 ELSE arr[1].duration + SumDuration(Tail(arr))

\* array.filter(pred), for the predicate given as the set of elements it keeps
RECURSIVE Filter(_, _)
Filter(arr, keep) ==
  IF arr = <<>> THEN <<>>
  ELSE (IF arr[1] \in keep THEN <<arr[1]>> ELSE <<>>) \o Filter(Tail(arr), keep)

Range(arr) == {arr[i] : i \in 1..Len(arr)}

(***************************************************************************)
(* dateUtils.calculateStreaks                                              *)
(***************************************************************************)
Max(a, b) == IF a >= b THEN a ELSE b

RECURSIVE StreakWalk_CountsBreak(_, _, _)
\* the walk with the day that ends it counted as well
StreakWalk_CountsBreak(uniqueDates, checkDate, currentStreak) ==
  IF includes(uniqueDates, formatDate(checkDate))
  THEN StreakWalk_CountsBreak(uniqueDates, subDays(checkDate, 1),
                              currentStreak + 1)
  ELSE currentStreak + 1

RECURSIVE StreakWalk(_, _, _)
\* the while (true) loop: count session days backwards from checkDate
StreakWalk(uniqueDates, checkDate, currentStreak) ==
  IF includes(uniqueDates, formatDate(checkDate))
  THEN StreakWalk(uniqueDates, subDays(checkDate, 1), currentStreak + 1)
  ELSE currentStreak

RECURSIVE LongestLoop_Overwrites(_, _, _, _)
\* the loop with longestStreak = tempStreak where a run closes
LongestLoop_Overwrites(uniqueDates, i, longestStreak, tempStreak) ==
  IF i > Len(uniqueDates) THEN <<longestStreak, tempStreak>>
  ELSE IF i = 1 THEN LongestLoop_Overwrites(uniqueDates, i + 1, longestStreak, 1)
  ELSE IF differenceInDays(parseISO(uniqueDates[i]),
                           parseISO(uniqueDates[i - 1])) = 1
       THEN LongestLoop_Overwrites(uniqueDates, i + 1, longestStreak,
                                   tempStreak + 1)
       ELSE LongestLoop_Overwrites(uniqueDates, i + 1, tempStreak, 1)

RECURSIVE LongestLoop(_, _, _, _)
\* the for loop over uniqueDates; the result is <<longestStreak, tempStreak>>
LongestLoop(uniqueDates, i, longestStreak, tempStreak) ==
  IF i > Len(uniqueDates) THEN <<longestStreak, tempStreak>>
  ELSE IF i = 1 THEN LongestLoop(uniqueDates, i + 1, longestStreak, 1)
  ELSE LET prevDate == parseISO(uniqueDates[i - 1])
           currentDate == parseISO(uniqueDates[i])
           daysDiff == differenceInDays(currentDate, prevDate)
       IN IF daysDiff = 1
          THEN LongestLoop(uniqueDates, i + 1, longestStreak, tempStreak + 1)
          ELSE LongestLoop(uniqueDates, i + 1, Max(longestStreak, tempStreak), 1)

\* the locals of calculateStreaks before its walk is entered: uniqueDates is
\* not yet built, currentStreak is 0, checkDate is not yet declared and no
\* day was looked up
NoWalk == [uniqueDates |-> <<>>, checkDate |-> 0, currentStreak |-> 0, checks |-> 0]

\* calculateStreaks with the walk begun at the latest session day
calculateStreaks_FromLatest(arr, t) ==
  IF Len(arr) = 0 THEN [currentStreak |-> 0, longestStreak |-> 0]
  ELSE LET uniqueDates == SortSet({arr[i].date : i \in 1..Len(arr)})
           latest == parseISO(uniqueDates[Len(uniqueDates)])
           loop == LongestLoop(uniqueDates, 1, 0, 0)
       IN [currentStreak |-> StreakWalk(uniqueDates, latest, 0),
           longestStreak |-> Max(loop[1], loop[2])]

\* calculateStreaks without the early return, its run counter begun at 1
calculateStreaks_NoEmptyCheck(arr, t) ==
  LET uniqueDates == SortSet({arr[i].date : i \in 1..Len(arr)})
      today == formatDate(Today(t))
      yesterday == formatDate(subDays(Today(t), 1))
      currentStreak ==
        IF includes(uniqueDates, today) \/ includes(uniqueDates, yesterday)
        THEN StreakWalk(uniqueDates, Today(t), 0)
        ELSE 0
      loop == LongestLoop(uniqueDates, 1, 0, 1)
  IN [currentStreak |-> currentStreak,
      longestStreak |-> Max(loop[1], loop[2])]

\* calculateStreaks without the Math.max(longestStreak, tempStreak) that
\* follows the loop
calculateStreaks_DropsLastRun(arr, t) ==
  IF Len(arr) = 0 THEN [currentStreak |-> 0, longestStreak |-> 0]
  ELSE LET uniqueDates == SortSet({arr[i].date : i \in 1..Len(arr)})
           today == formatDate(Today(t))
           yesterday == formatDate(subDays(Today(t), 1))
           currentStreak ==
             IF includes(uniqueDates, today) \/ includes(uniqueDates, yesterday)
             THEN StreakWalk(uniqueDates, Today(t), 0)
             ELSE 0
           loop == LongestLoop(uniqueDates, 1, 0, 0)
       IN [currentStreak |-> currentStreak, longestStreak |-> loop[1]]

RECURSIVE DatesInOrder(_)
\* [...new Set(sessions.map(s => s.date))]: the dates by first occurrence
DatesInOrder(arr) ==
  IF arr = <<>> THEN <<>>
  ELSE LET rest == DatesInOrder(SubSeq(arr, 1, Len(arr) - 1))
       IN IF includes(rest, arr[Len(arr)].date) THEN rest
          ELSE Append(rest, arr[Len(arr)].date)

\* calculateStreaks without the sort of uniqueDates
calculateStreaks_Unsorted(arr, t) ==
  IF Len(arr) = 0 THEN [currentStreak |-> 0, longestStreak |-> 0]
  ELSE LET uniqueDates == DatesInOrder(arr)
           today == formatDate(Today(t))
           yesterday == formatDate(subDays(Today(t), 1))
           currentStreak ==
             IF includes(uniqueDates, today) \/ includes(uniqueDates, yesterday)
             THEN StreakWalk(uniqueDates, Today(t), 0)
             ELSE 0
           loop == LongestLoop(uniqueDates, 1, 0, 0)
       IN [currentStreak |-> currentStreak,
           longestStreak |-> Max(loop[1], loop[2])]

calculateStreaks(arr, t) ==
  IF Len(arr) = 0 THEN [currentStreak |-> 0, longestStreak |-> 0]
  ELSE LET uniqueDates == SortSet({arr[i].date : i \in 1..Len(arr)})
           today == formatDate(Today(t))
           yesterday == formatDate(subDays(Today(t), 1))
           currentStreak ==
             IF includes(uniqueDates, today) \/ includes(uniqueDates, yesterday)
             THEN StreakWalk(uniqueDates, Today(t), 0)
             ELSE 0
           loop == LongestLoop(uniqueDates, 1, 0, 0)
       IN [currentStreak |-> currentStreak,
           longestStreak |-> Max(loop[1], loop[2])]

(***************************************************************************)
(* dateUtils.calculateStats                                                *)
(***************************************************************************)
\* Math.floor(a / b) for b > 0
RoundDiv_Floor(a, b) == a \div b

\* Math.round(a / b) for b > 0: halves go up
RoundDiv(a, b) == (2 * a + b) \div (2 * b)

calculateStats(arr, t) ==
  LET weekStart == startOfWeek(Today(t))
      weekEnd == endOfWeek(Today(t))
      monthStart == startOfMonth(Today(t))
      monthEnd == endOfMonth(Today(t))
      totalSessions == Len(arr)
      totalMinutes == SumDuration(arr)
      averageSessionDuration ==
        IF totalSessions > 0 THEN RoundDiv(totalMinutes, totalSessions) ELSE 0
      inWeek == {s \in Range(arr) :
                   isWithinInterval(parseISO(s.date), weekStart, weekEnd)}
      inMonth == {s \in Range(arr) :
                   isWithinInterval(parseISO(s.date), monthStart, monthEnd)}
      streaks == calculateStreaks(arr, t)
  IN [totalSessions |-> totalSessions,
      totalMinutes |-> totalMinutes,
      currentStreak |-> streaks.currentStreak,
      longestStreak |-> streaks.longestStreak,
      averageSessionDuration |-> averageSessionDuration,
      sessionsThisWeek |-> Len(Filter(arr, inWeek)),
      sessionsThisMonth |-> Len(Filter(arr, inMonth)),
      minutesThisWeek |-> SumDuration(Filter(arr, inWeek)),
      minutesThisMonth |-> SumDuration(Filter(arr, inMonth))]

\* useState<UserStats>({ ... 0 ... })
ZeroStats ==
  [totalSessions |-> 0, totalMinutes |-> 0, currentStreak |-> 0,
   longestStreak |-> 0, averageSessionDuration |-> 0, sessionsThisWeek |-> 0,
   sessionsThisMonth |-> 0, minutesThisWeek |-> 0, minutesThisMonth |-> 0]

(***************************************************************************)
(* dateUtils.generateHeatmapData                                           *)
(***************************************************************************)
\* the first value of the loop counter: for (let i = 364; i >= 0; i--)
HeatmapFirst == 364

RECURSIVE sessionsByDate_Minutes(_, _)
\* acc[date] += session.duration
sessionsByDate_Minutes(arr, dateString) ==
  IF arr = <<>> THEN 0
  ELSE (IF arr[1].date = dateString THEN arr[1].duration ELSE 0)
         + sessionsByDate_Minutes(Tail(arr), dateString)

\* sessionsByDate[dateString] || 0
sessionsByDate(arr, dateString) ==
  Cardinality({i \in 1..Len(arr) : arr[i].date = dateString})

\* the level as the count, capped at 5
heatmapLevel_Linear(count) == IF count >= 5 THEN 5 ELSE count

heatmapLevel(count) ==
  IF count >= 3 THEN 5
  ELSE IF count >= 2 THEN 4
  ELSE IF count >= 1 THEN 3
  ELSE 0

\* heatmapData.push({ date: dateString, count, level })
heatmapEntry(dateString, count) ==
  [date |-> dateString, count |-> count, level |-> heatmapLevel(count)]

\* the body of the loop for one dateString
heatmapEntryOf(arr, dateString) ==
  heatmapEntry(dateString, sessionsByDate(arr, dateString))

\* the loop run while i > 0
generateHeatmapData_StopsEarly(arr, t) ==
  [k \in 1..HeatmapFirst |->
     heatmapEntryOf(arr, formatDate(subDays(Today(t), HeatmapFirst - (k - 1))))]

generateHeatmapData(arr, t) ==
  [k \in 1..(HeatmapFirst + 1) |->
     heatmapEntryOf(arr, formatDate(subDays(Today(t), HeatmapFirst - (k - 1))))]

(***************************************************************************)
(* storageUtils                                                            *)
(***************************************************************************)
\* What localStorage does with a key: "array" when it holds the JSON text of
\* the array kept in store or badgeStore (no item at all is the empty array,
\* which the code makes of it), "nonarray" when it holds a JSON text of
\* something else, "garbage" when it holds a text JSON.parse rejects, and
\* "unavailable" when getItem and setItem throw.
ItemKinds == {"array", "nonarray", "garbage", "unavailable"}

\* a parsed JSON value, as far as the code tells values apart
JSONArray(items) == [isArray |-> TRUE, items |-> items]
JSONNonArray == [isArray |-> FALSE, items |-> <<>>]

\* try { stored = getItem(KEY); return stored ? JSON.parse(stored) : [] }
\* catch { return [] }
loadItem(item, parsed) ==
  CASE item = "array" -> JSONArray(parsed)
    [] item = "nonarray" -> JSONNonArray
    [] OTHER -> JSONArray(<<>>)

loadSessions == loadItem(sessionsItem, store)

loadBadges == loadItem(badgesItem, badgeStore)

\* try { setItem(KEY, JSON.stringify(sessions)) } catch { console.error }
saveSessions(arr) ==
  IF sessionsItem = "unavailable"
  THEN UNCHANGED <<store, sessionsItem>>
  ELSE store' = arr /\ sessionsItem' = "array"

saveBadges(arr) ==
  IF badgesItem = "unavailable"
  THEN UNCHANGED <<badgeStore, badgesItem>>
  ELSE badgeStore' = arr /\ badgesItem' = "array"

RECURSIVE InsertByDate(_, _)
\* place s after every element whose date is not earlier than its own
InsertByDate(sorted, s) ==
  IF sorted = <<>> THEN <<s>>
  ELSE IF parseISO(sorted[1].date) >= parseISO(s.date)
       THEN <<sorted[1]>> \o InsertByDate(Tail(sorted), s)
       ELSE <<s>> \o sorted

RECURSIVE SortByDateDesc(_)
\* sessions.sort((a, b) => new Date(b.date) - new Date(a.date)), a stable sort
SortByDateDesc(arr) ==
  IF arr = <<>> THEN <<>>
  ELSE InsertByDate(SortByDateDesc(SubSeq(arr, 1, Len(arr) - 1)), arr[Len(arr)])

\* sessions.push(session) on the array loadSessions returned, then the sort
addSession(session) == SortByDateDesc(Append(loadSessions.items, session))

\* sessions.findIndex(s => s.id === sessionId), 0 when there is none
findIndex(arr, sessionId) ==
  IF \E i \in 1..Len(arr) : arr[i].id = sessionId
  THEN CHOOSE i \in 1..Len(arr) :
         arr[i].id = sessionId /\ \A j \in 1..(i - 1) : arr[j].id # sessionId
  ELSE 0

\* updates carries every field of a session, so the merge is the update
updateSession(sessionId, updates) ==
  LET index == findIndex(loadSessions.items, sessionId)
  IN IF index # 0 THEN [loadSessions.items EXCEPT ![index] = updates]
     ELSE loadSessions.items

deleteSession(sessionId) ==
  Filter(loadSessions.items,
         {s \in Range(loadSessions.items) : s.id # sessionId})

(***************************************************************************)
(* storageUtils.exportData and storageUtils.importData                     *)
(*                                                                         *)
(* A JSON text is modelled by what JSON.parse makes of it: kind is         *)
(* "malformed" for a text it rejects, "null" for the text of null,         *)
(* "scalar" for the text of a number, a string or a boolean and "object"   *)
(* for the text of an object, whose sessions and badges properties are     *)
(* fields.  A field has kind "missing" (no such property, or a falsy one), *)
(* "other" (a truthy value that is no array) or "array", and then items    *)
(* are the texts of its elements: the members of each object, in order.    *)
(***************************************************************************)
NoField == [kind |-> "missing", items |-> <<>>]
OtherField == [kind |-> "other", items |-> <<>>]
ArrayField(items) == [kind |-> "array", items |-> items]

MalformedText == [kind |-> "malformed", sessions |-> NoField, badges |-> NoField]
NullText == [kind |-> "null", sessions |-> NoField, badges |-> NoField]
ScalarText == [kind |-> "scalar", sessions |-> NoField, badges |-> NoField]
ObjectText(sessionsField, badgesField) ==
  [kind |-> "object", sessions |-> sessionsField, badges |-> badgesField]

\* the properties of a stored session and of a stored badge, in the order
\* the objects are built with
SessionKeys ==
  <<"id", "date", "timeSlot", "startTime", "endTime", "duration", "content",
    "createdAt">>
BadgeKeys == <<"id", "type", "requirement", "unlocked", "unlockedAt">>

\* the keys among the first n that obj defines
RECURSIVE definedKeys(_, _, _)
definedKeys(obj, keys, n) ==
  IF n = 0 THEN <<>>
  ELSE LET before == definedKeys(obj, keys, n - 1)
       IN IF keys[n] \in DOMAIN obj THEN Append(before, keys[n]) ELSE before

\* JSON.stringify of an object: a member for each property that is defined
stringifyObject(obj, keys) ==
  LET defined == definedKeys(obj, keys, Len(keys))
  IN [i \in 1..Len(defined) |-> [key |-> defined[i], value |-> obj[defined[i]]]]

\* JSON.parse of the text of an object: of the members with one key the last
\* one stands
parseObject(members) ==
  [k \in {members[i].key : i \in 1..Len(members)} |->
     members[CHOOSE i \in 1..Len(members) :
               /\ members[i].key = k
               /\ \A j \in (i + 1)..Len(members) : members[j].key # k].value]

\* JSON.stringify of what loadSessions or loadBadges returned
stringifyValue(value, keys) ==
  IF value.isArray
  THEN ArrayField([i \in 1..Len(value.items) |->
                     stringifyObject(value.items[i], keys)])
  ELSE OtherField

\* JSON.parse of the text of an array of objects
parseArray(items) == [i \in 1..Len(items) |-> parseObject(items[i])]

\* the export with the locked badges left out
exportData_UnlockedOnly ==
  ObjectText(stringifyValue(loadSessions, SessionKeys),
             stringifyValue(JSONArray(SelectSeq(loadBadges.items,
                                                LAMBDA b : b.unlocked)),
                            BadgeKeys))

\* JSON.stringify({ sessions, badges }, null, 2)
exportData ==
  ObjectText(stringifyValue(loadSessions, SessionKeys),
             stringifyValue(loadBadges, BadgeKeys))

\* if (data.sessions && Array.isArray(data.sessions)) saveSessions(data.sessions)
importSessions(data) ==
  IF data.sessions.kind = "array"
  THEN saveSessions(parseArray(data.sessions.items))
  ELSE UNCHANGED <<store, sessionsItem>>

\* if (data.badges && Array.isArray(data.badges)) saveBadges(data.badges)
importBadges(data) ==
  IF data.badges.kind = "array"
  THEN saveBadges(parseArray(data.badges.items))
  ELSE UNCHANGED <<badgeStore, badgesItem>>

\* importData with a catch that returns true
importData_SwallowsError(text) ==
  IF text.kind \in {"malformed", "null"}
  THEN /\ importResult' = TRUE
       /\ UNCHANGED <<store, sessionsItem, badgeStore, badgesItem>>
  ELSE /\ importSessions(text)
       /\ importBadges(text)
       /\ importResult' = TRUE

\* JSON.parse throws on a malformed text and data.sessions throws on null:
\* the catch returns false; otherwise each key is saved if it is an array
importData(text) ==
  IF text.kind \in {"malformed", "null"}
  THEN /\ importResult' = FALSE
       /\ UNCHANGED <<store, sessionsItem, badgeStore, badgesItem>>
  ELSE /\ importSessions(text)
       /\ importBadges(text)
       /\ importResult' = TRUE

(***************************************************************************)
(* BadgeSystem: the catalog and the evaluator                              *)
(***************************************************************************)
BADGE_DEFINITIONS ==
  << [id |-> "streak-3", type |-> "streak", requirement |-> 3],
     [id |-> "streak-7", type |-> "streak", requirement |-> 7],
     [id |-> "streak-30", type |-> "streak", requirement |-> 30],
     [id |-> "streak-100", type |-> "streak", requirement |-> 100],
     [id |-> "time-300", type |-> "time", requirement |-> 300],
     [id |-> "time-600", type |-> "time", requirement |-> 600],
     [id |-> "time-900", type |-> "time", requirement |-> 900],
     [id |-> "time-1200", type |-> "time", requirement |-> 1200],
     [id |-> "sessions-10", type |-> "content", requirement |-> 10],
     [id |-> "sessions-50", type |-> "content", requirement |-> 50],
     [id |-> "sessions-100", type |-> "content", requirement |-> 100],
     [id |-> "sessions-250", type |-> "content", requirement |-> 250] >>

\* a badge with unlockedAt undefined has no unlockedAt field once stored
LockedBadge(badgeDef) ==
  [id |-> badgeDef.id, type |-> badgeDef.type,
   requirement |-> badgeDef.requirement, unlocked |-> FALSE]

UnlockedBadge(badgeDef, at) ==
  [id |-> badgeDef.id, type |-> badgeDef.type,
   requirement |-> badgeDef.requirement, unlocked |-> TRUE, unlockedAt |-> at]

\* new Map(existingBadges.map(b => [b.id, b])).has(id)
badgeMapHas(existingBadges, id) ==
  \E i \in 1..Len(existingBadges) : existingBadges[i].id = id

\* badgeMap.get(id): of the entries with one id the last one stands
badgeMapGet(existingBadges, id) ==
  existingBadges[CHOOSE i \in 1..Len(existingBadges) :
                   /\ existingBadges[i].id = id
                   /\ \A j \in (i + 1)..Len(existingBadges) :
                        existingBadges[j].id # id]

\* the switch with the time badges decided on totalMinutes
isUnlocked_TotalMinutes(badgeDef, st) ==
  CASE badgeDef.type = "streak" -> st.currentStreak >= badgeDef.requirement
    [] badgeDef.type = "time" -> st.totalMinutes >= badgeDef.requirement
    [] badgeDef.type = "content" -> st.totalSessions >= badgeDef.requirement
    [] OTHER -> FALSE

\* the switch with === in place of >=
isUnlocked_Exact(badgeDef, st) ==
  CASE badgeDef.type = "streak" -> st.currentStreak = badgeDef.requirement
    [] badgeDef.type = "time" -> st.minutesThisWeek = badgeDef.requirement
    [] badgeDef.type = "content" -> st.totalSessions = badgeDef.requirement
    [] OTHER -> FALSE

\* the switch on badgeDef.type
isUnlocked(badgeDef, st) ==
  CASE badgeDef.type = "streak" -> st.currentStreak >= badgeDef.requirement
    [] badgeDef.type = "time" -> st.minutesThisWeek >= badgeDef.requirement
    [] badgeDef.type = "content" -> st.totalSessions >= badgeDef.requirement
    [] OTHER -> FALSE

\* if (isUnlocked), whatever was stored
isNewlyUnlocked_IgnoresStored(existingBadges, badgeDef, st) ==
  isUnlocked(badgeDef, st)

\* if (isUnlocked && (!existing || !existing.unlocked))
isNewlyUnlocked(existingBadges, badgeDef, st) ==
  /\ isUnlocked(badgeDef, st)
  /\ \/ ~badgeMapHas(existingBadges, badgeDef.id)
     \/ ~badgeMapGet(existingBadges, badgeDef.id).unlocked

\* the callback with unlocked taken from the statistics alone
evaluateBadge_Recomputes(existingBadges, badgeDef, st, t) ==
  IF isNewlyUnlocked(existingBadges, badgeDef, st)
  THEN UnlockedBadge(badgeDef, t)
  ELSE IF isUnlocked(badgeDef, st)
       THEN badgeMapGet(existingBadges, badgeDef.id)
       ELSE LockedBadge(badgeDef)

\* the callback with unlockedAt stamped whenever the badge is eligible
evaluateBadge_Restamps(existingBadges, badgeDef, st, t) ==
  IF isUnlocked(badgeDef, st)
  THEN UnlockedBadge(badgeDef, t)
  ELSE IF badgeMapHas(existingBadges, badgeDef.id)
       THEN badgeMapGet(existingBadges, badgeDef.id)
       ELSE LockedBadge(badgeDef)

\* the callback with unlockedAt: Date.now() on a badge it creates locked
evaluateBadge_StampsLocked(existingBadges, badgeDef, st, t) ==
  IF isNewlyUnlocked(existingBadges, badgeDef, st)
  THEN UnlockedBadge(badgeDef, t)
  ELSE IF badgeMapHas(existingBadges, badgeDef.id)
       THEN badgeMapGet(existingBadges, badgeDef.id)
       ELSE [id |-> badgeDef.id, type |-> badgeDef.type,
             requirement |-> badgeDef.requirement, unlocked |-> FALSE,
             unlockedAt |-> t]

\* the callback of BADGE_DEFINITIONS.map
evaluateBadge(existingBadges, badgeDef, st, t) ==
  IF isNewlyUnlocked(existingBadges, badgeDef, st)
  THEN UnlockedBadge(badgeDef, t)
  ELSE IF badgeMapHas(existingBadges, badgeDef.id)
       THEN badgeMapGet(existingBadges, badgeDef.id)
       ELSE IF isUnlocked(badgeDef, st)
            THEN UnlockedBadge(badgeDef, t)
            ELSE LockedBadge(badgeDef)

\* the stored badges updated in place, those of the catalog they lack behind
updatedBadges_KeepsStored(existingBadges, st, t) ==
  [k \in 1..Len(BADGE_DEFINITIONS) |->
     evaluateBadge(existingBadges, BADGE_DEFINITIONS[k], st, t)]
    \o SelectSeq(existingBadges,
                 LAMBDA b : \A k \in 1..Len(BADGE_DEFINITIONS) :
                              BADGE_DEFINITIONS[k].id # b.id)

\* updatedBadges of the useMemo
updatedBadges(existingBadges, st, t) ==
  [k \in 1..Len(BADGE_DEFINITIONS) |->
     evaluateBadge(existingBadges, BADGE_DEFINITIONS[k], st, t)]

RECURSIVE pushNewBadges_ReportsEligible(_, _, _, _)
\* the updaters queued for every badge that isUnlocked, stored or not
pushNewBadges_ReportsEligible(prev, existingBadges, st, k) ==
  IF k > Len(BADGE_DEFINITIONS) THEN prev
  ELSE LET badgeDef == BADGE_DEFINITIONS[k]
           next == IF /\ isUnlocked(badgeDef, st)
                      /\ ~includes(prev, badgeDef.id)
                   THEN Append(prev, badgeDef.id)
                   ELSE prev
       IN pushNewBadges_ReportsEligible(next, existingBadges, st, k + 1)

RECURSIVE pushNewBadges(_, _, _, _)
\* the setNewBadges updaters queued by the useMemo, applied in catalog order
pushNewBadges(prev, existingBadges, st, k) ==
  IF k > Len(BADGE_DEFINITIONS) THEN prev
  ELSE LET badgeDef == BADGE_DEFINITIONS[k]
           next == IF /\ isNewlyUnlocked(existingBadges, badgeDef, st)
                      /\ ~includes(prev, badgeDef.id)
                   THEN Append(prev, badgeDef.id)
                   ELSE prev
       IN pushNewBadges(next, existingBadges, st, k + 1)

(***************************************************************************)
(* Inputs of the analytics functions                                       *)
(***************************************************************************)
\* the days on which the functions are called
RefDays == {RefDayA, RefDayB}

\* minutes a stored session lasts, as in the scenario of two sessions
Durations == {30, 45}

\* a stored session of the given day that starts at 09:00
InputSession(id, day, minutes) ==
  [id |-> id, date |-> formatDate(day), timeSlot |-> "morning",
   startTime |-> <<9, 0>>, endTime |-> <<9, minutes>>, duration |-> minutes,
   content |-> "Dune", createdAt |-> day]

RECURSIVE OnePerDay(_, _, _)
\* one session of 30 minutes on each day of the set, latest day first
OnePerDay(days, id, minutes) ==
  IF days = {} THEN <<>>
  ELSE LET latest == CHOOSE x \in days : \A y \in days : y <= x
       IN <<InputSession(id, latest, minutes)>>
            \o OnePerDay(days \ {latest}, id + 1, minutes)

\* the last WindowDays days up to and including day d
Window(d) == (d - WindowDays + 1)..d

\* days after day d that a stored session may carry once the clock was set
\* back: the last day of the week and of the month of d and the day after each
AheadDays(d) ==
  {endOfWeek(d), endOfWeek(d) + 1, endOfMonth(d), endOfMonth(d) + 1}

\* session lists for calculateStats: one session on each day of a set of days
\* of the window, behind at most one more session of any day of the window
\* or of a day ahead
StatsInputs(d) ==
  {extra \o OnePerDay(days, 1, 30) :
     days \in SUBSET Window(d),
     extra \in {<<>>} \cup
               {<<InputSession(0, day, m)>> :
                  day \in Window(d) \cup AheadDays(d), m \in Durations}}

\* the days a session handed to generateHeatmapData may be dated: today, the
\* first day of the heatmap and the day before it
HeatmapDays(d) == {d, d - HeatmapFirst, d - HeatmapFirst - 1}

RECURSIVE SeqsUpTo(_, _)
\* the sequences over S of length at most n
SeqsUpTo(S, n) ==
  IF n = 0 THEN {<<>>}
  ELSE LET shorter == SeqsUpTo(S, n - 1)
       IN shorter \cup {Append(q, x) : q \in shorter, x \in S}

HeatmapInputs(d) ==
  SeqsUpTo({InputSession(0, day, m) : day \in HeatmapDays(d), m \in Durations},
           MaxLen)

(***************************************************************************)
(* The analytics functions applied to a stored session list                *)
(***************************************************************************)
InitCommon ==
  /\ now \in RefDays
  /\ store = <<>>
  /\ badgeStore = <<>>
  /\ nextId = 1
  /\ stats = ZeroStats
  /\ activeTab = "overview"
  /\ newBadges = <<>>
  /\ heatmapData = <<>>
  /\ pc = "input"
  /\ sessionsItem = "array"
  /\ badgesItem = "array"
  /\ prevBadges = <<>>
  /\ jsonData = MalformedText
  /\ importResult = FALSE
  /\ form = DefaultForm
  /\ walk = NoWalk

InitStats ==
  /\ InitCommon
  /\ sessions \in StatsInputs(Today(now))

\* setStats(dateUtils.calculateStats(savedSessions))
CalcStats ==
  /\ pc = "input"
  /\ stats' = calculateStats(sessions, now)
  /\ pc' = "stats"
  /\ UNCHANGED <<now, store, badgeStore, nextId, sessions, activeTab,
                 newBadges, heatmapData, sessionsItem, badgesItem, ioVars>>

NextStats == CalcStats

SpecStats == InitStats /\ [][NextStats]_vars

InitHeatmap ==
  /\ InitCommon
  /\ sessions \in HeatmapInputs(Today(now))

\* const heatmapData = dateUtils.generateHeatmapData(sessions)
RenderHeatmap ==
  /\ pc = "input"
  /\ heatmapData' = generateHeatmapData(sessions, now)
  /\ pc' = "heatmap"
  /\ UNCHANGED <<now, store, badgeStore, nextId, sessions, stats, activeTab,
                 newBadges, sessionsItem, badgesItem, ioVars>>

NextHeatmap == RenderHeatmap

SpecHeatmap == InitHeatmap /\ [][NextHeatmap]_vars

(***************************************************************************)
(* The application: ReadingTracker, SessionLogger and BadgeSystem          *)
(***************************************************************************)
\* the day the application is first opened: 2023-12-30, a Saturday
StartDay == RefDayA - 3

\* what the user may type into the form of the session logger
StartTimes == {<<9, 0>>, <<14, 0>>}
EndTimes == {<<10, 30>>, <<14, 0>>}
Contents == {"", "Dune"}
TimeSlots == {"morning"}
Tabs == {"overview", "badges"}

\* isValidForm without duration > 0
isValidForm_AnyDuration(startTime, endTime, content) == content # ""

\* const isValidForm = content.trim() && startTime && endTime && duration > 0
isValidForm(startTime, endTime, content) ==
  content # "" /\ calculateDuration(startTime, endTime) > 0

\* the BadgeSystem is rendered while the badges tab is shown
BadgeSystemMounted(tab) == tab = "badges"

\* the useMemo without storageUtils.saveBadges(updatedBadges)
Evaluate_ReturnsOnly(st, prevNew) ==
  /\ UNCHANGED <<badgeStore, badgesItem>>
  /\ newBadges' = pushNewBadges(prevNew, loadBadges.items, st, 1)

\* the useMemo of BadgeSystem run against the badge store with the stats and
\* the newBadges state the component holds; it saves what it returns
Evaluate(st, prevNew) ==
  /\ saveBadges(updatedBadges(loadBadges.items, st, now))
  /\ newBadges' = pushNewBadges(prevNew, loadBadges.items, st, 1)

\* loadData() once the store holds saved, then the render it causes
LoadDataAndRender(saved) ==
  /\ saveSessions(saved)
  /\ sessions' = loadItem(sessionsItem', store').items
  /\ stats' = calculateStats(sessions', now)
  /\ IF BadgeSystemMounted(activeTab)
     THEN Evaluate(stats', newBadges)
     ELSE UNCHANGED <<badgeStore, badgesItem, newBadges>>

Init ==
  /\ now = StartDay
  /\ store = <<>>
  /\ badgeStore = <<>>
  /\ nextId = 1
  /\ sessions = <<>>
  /\ stats = ZeroStats
  /\ activeTab = "overview"
  /\ newBadges = <<>>
  /\ heatmapData = <<>>
  /\ pc = "app"
  /\ sessionsItem = "array"
  /\ badgesItem = "array"
  /\ prevBadges = <<>>
  /\ jsonData = MalformedText
  /\ importResult = FALSE
  /\ form = DefaultForm
  /\ walk = NoWalk

\* time passes
Tick ==
  /\ Today(now + 1) < StartDay + MaxDays
  /\ now' = now + 1
  /\ UNCHANGED <<store, badgeStore, nextId, sessions, stats, activeTab,
                 newBadges, heatmapData, pc, sessionsItem, badgesItem, ioVars>>

\* handleSubmit with a form that is not valid: the toast and nothing else
RejectSubmit ==
  \E startTime \in StartTimes, endTime \in EndTimes, content \in Contents :
    /\ ~isValidForm(startTime, endTime, content)
    /\ UNCHANGED <<now, store, badgeStore, nextId, sessions, stats, activeTab,
                   newBadges, heatmapData, pc, sessionsItem, badgesItem,
                   ioVars>>

\* handleSubmit without editSession, then handleSessionAdded
LogSession ==
  \E timeSlot \in TimeSlots, startTime \in StartTimes, endTime \in EndTimes,
     content \in Contents :
    /\ nextId <= MaxCreated
    /\ isValidForm(startTime, endTime, content)
    /\ LET sessionData ==
             [id |-> nextId, date |-> formatDate(Today(now)),
              timeSlot |-> timeSlot, startTime |-> startTime,
              endTime |-> endTime,
              duration |-> calculateDuration(startTime, endTime),
              content |-> content, createdAt |-> now]
       IN LoadDataAndRender(addSession(sessionData))
    /\ nextId' = nextId + 1
    /\ UNCHANGED <<now, activeTab, heatmapData, pc, ioVars>>

\* the sessions are listed, with their edit and delete buttons, on this tab
SessionsListed(tab) == tab = "overview"

\* the edit with the date taken from the clock, as for a new session
EditSession_Redated ==
  \E i \in 1..Len(sessions), timeSlot \in TimeSlots, startTime \in StartTimes,
     endTime \in EndTimes, content \in Contents :
    /\ SessionsListed(activeTab)
    /\ isValidForm(startTime, endTime, content)
    /\ LET editSession == sessions[i]
           sessionData ==
             [id |-> editSession.id, date |-> formatDate(Today(now)),
              timeSlot |-> timeSlot, startTime |-> startTime,
              endTime |-> endTime,
              duration |-> calculateDuration(startTime, endTime),
              content |-> content,
              createdAt |-> IF editSession.createdAt # 0
                            THEN editSession.createdAt ELSE now]
       IN LoadDataAndRender(updateSession(editSession.id, sessionData))
    /\ UNCHANGED <<now, nextId, activeTab, heatmapData, pc, ioVars>>

\* handleEditSession of a listed session, handleSubmit with editSession, then
\* handleSessionAdded
EditSession ==
  \E i \in 1..Len(sessions), timeSlot \in TimeSlots, startTime \in StartTimes,
     endTime \in EndTimes, content \in Contents :
    /\ SessionsListed(activeTab)
    /\ isValidForm(startTime, endTime, content)
    /\ LET editSession == sessions[i]
           sessionData ==
             [id |-> editSession.id, date |-> editSession.date,
              timeSlot |-> timeSlot, startTime |-> startTime,
              endTime |-> endTime,
              duration |-> calculateDuration(startTime, endTime),
              content |-> content,
              createdAt |-> IF editSession.createdAt # 0
                            THEN editSession.createdAt ELSE now]
       IN LoadDataAndRender(updateSession(editSession.id, sessionData))
    /\ UNCHANGED <<now, nextId, activeTab, heatmapData, pc, ioVars>>

\* handleDeleteSession of a listed session, confirmed
DeleteSession ==
  \E i \in 1..Len(sessions) :
    /\ SessionsListed(activeTab)
    /\ LoadDataAndRender(deleteSession(sessions[i].id))
    /\ UNCHANGED <<now, nextId, activeTab, heatmapData, pc, ioVars>>

\* setActiveTab(tab): the BadgeSystem is mounted, with newBadges empty, when
\* the badges tab opens and unmounted when it closes
SetActiveTab ==
  \E tab \in Tabs :
    /\ tab # activeTab
    /\ activeTab' = tab
    /\ IF BadgeSystemMounted(tab)
       THEN Evaluate(stats, <<>>)
       ELSE newBadges' = <<>> /\ UNCHANGED <<badgeStore, badgesItem>>
    /\ UNCHANGED <<now, store, sessionsItem, nextId, sessions, stats,
                   heatmapData, pc, ioVars>>

\* the effect on newBadges: show the first one and drop it
ShowNotification ==
  /\ Len(newBadges) > 0
  /\ newBadges' = Tail(newBadges)
  /\ UNCHANGED <<now, store, badgeStore, nextId, sessions, stats, activeTab,
                 heatmapData, pc, sessionsItem, badgesItem, ioVars>>

Next ==
  \/ Tick
  \/ RejectSubmit
  \/ LogSession
  \/ EditSession
  \/ DeleteSession
  \/ SetActiveTab
  \/ ShowNotification

Spec == Init /\ [][Next]_vars

(***************************************************************************)
(* calculateDuration applied to the times of the form                      *)
(***************************************************************************)
\* the hours and the minutes of the times typed into the form
FormHours == {0, 9, 10, 14, 23}
FormMinutes == {0, 30, 59}
FormTimes == {<<h, m>> : h \in FormHours, m \in FormMinutes}

\* the times are typed in; the duration is that of the render before
InitDuration ==
  /\ now = StartDay
  /\ store = <<>>
  /\ badgeStore = <<>>
  /\ nextId = 1
  /\ sessions = <<>>
  /\ stats = ZeroStats
  /\ activeTab = "overview"
  /\ newBadges = <<>>
  /\ heatmapData = <<>>
  /\ pc = "input"
  /\ sessionsItem = "array"
  /\ badgesItem = "array"
  /\ prevBadges = <<>>
  /\ jsonData = MalformedText
  /\ importResult = FALSE
  /\ walk = NoWalk
  /\ \E startTime \in FormTimes, endTime \in FormTimes :
       form = [startTime |-> startTime, endTime |-> endTime,
               duration |-> DefaultForm.duration]

\* const duration = dateUtils.calculateDuration(startTime, endTime)
ComputeDuration ==
  /\ pc = "input"
  /\ form' = [form EXCEPT
                !.duration = calculateDuration(form.startTime, form.endTime)]
  /\ pc' = "duration"
  /\ UNCHANGED <<now, store, badgeStore, nextId, sessions, stats, activeTab,
                 newBadges, heatmapData, sessionsItem, badgesItem, prevBadges,
                 jsonData, importResult, walk>>

NextDuration == ComputeDuration

SpecDuration == InitDuration /\ [][NextDuration]_vars

(***************************************************************************)
(* The backward walk of calculateStreaks, one day check at a time          *)
(***************************************************************************)
InitWalk ==
  /\ InitCommon
  /\ sessions \in StatsInputs(Today(now))

\* calculateStreaks up to the while loop: the early return, uniqueDates, the
\* test for a session today or yesterday and let checkDate = new Date()
BeginWalk ==
  /\ pc = "input"
  /\ IF Len(sessions) = 0
     THEN pc' = "done" /\ walk' = NoWalk
     ELSE \E uniqueDates \in
               {SortSet({sessions[i].date : i \in 1..Len(sessions)})} :
            LET today == formatDate(Today(now))
                yesterday == formatDate(subDays(Today(now), 1))
            IN IF includes(uniqueDates, today) \/ includes(uniqueDates, yesterday)
               THEN /\ walk' = [NoWalk EXCEPT !.uniqueDates = uniqueDates,
                                              !.checkDate = Today(now)]
                    /\ pc' = "walk"
               ELSE /\ walk' = [NoWalk EXCEPT !.uniqueDates = uniqueDates]
                    /\ pc' = "done"
  /\ UNCHANGED <<now, store, badgeStore, nextId, sessions, stats, activeTab,
                 newBadges, heatmapData, sessionsItem, badgesItem, prevBadges,
                 jsonData, importResult, form>>

\* an iteration that breaks only once checkDate is before every session date
WalkStep_SkipsGaps ==
  /\ pc = "walk"
  /\ LET dateString == formatDate(walk.checkDate)
     IN IF includes(walk.uniqueDates, dateString)
        THEN /\ walk' = [walk EXCEPT !.currentStreak = walk.currentStreak + 1,
                                     !.checkDate = subDays(walk.checkDate, 1),
                                     !.checks = walk.checks + 1]
             /\ pc' = "walk"
        ELSE IF walk.checkDate >= parseISO(walk.uniqueDates[1])
        THEN /\ walk' = [walk EXCEPT !.checkDate = subDays(walk.checkDate, 1),
                                     !.checks = walk.checks + 1]
             /\ pc' = "walk"
        ELSE /\ walk' = [walk EXCEPT !.checks = walk.checks + 1]
             /\ pc' = "done"
  /\ UNCHANGED <<now, store, badgeStore, nextId, sessions, stats, activeTab,
                 newBadges, heatmapData, sessionsItem, badgesItem, prevBadges,
                 jsonData, importResult, form>>

\* one iteration of while (true): look checkDate up in uniqueDates, then count
\* the day and step back one day, or break
WalkStep ==
  /\ pc = "walk"
  /\ LET dateString == formatDate(walk.checkDate)
     IN IF includes(walk.uniqueDates, dateString)
        THEN /\ walk' = [walk EXCEPT !.currentStreak = walk.currentStreak + 1,
                                     !.checkDate = subDays(walk.checkDate, 1),
                                     !.checks = walk.checks + 1]
             /\ pc' = "walk"
        ELSE /\ walk' = [walk EXCEPT !.checks = walk.checks + 1]
             /\ pc' = "done"
  /\ UNCHANGED <<now, store, badgeStore, nextId, sessions, stats, activeTab,
                 newBadges, heatmapData, sessionsItem, badgesItem, prevBadges,
                 jsonData, importResult, form>>

NextWalk == BeginWalk \/ WalkStep

SpecWalk == InitWalk /\ [][NextWalk]_vars

\* the function runs to completion once called: nothing preempts the loop
SpecWalkFair == SpecWalk /\ WF_vars(BeginWalk) /\ WF_vars(WalkStep)

(***************************************************************************)
(* The badge evaluator applied to a badge store and to statistics          *)
(***************************************************************************)
\* one session of the given minutes on each of the n days up to day d
RunInput(d, n, minutes) == OnePerDay((d - n + 1)..d, 1, minutes)

\* the session lists whose statistics the evaluator is shown: 30 minutes
\* or 100 minutes on each day of a run of up to MaxRunDays days
BadgeSessionInputs(d) ==
  {RunInput(d, n, minutes) : n \in 0..MaxRunDays, minutes \in {30, 100}}

\* a badge of an id that the catalog does not hold
LegacyBadge(at) ==
  [id |-> "early-bird", type |-> "time", requirement |-> 60, unlocked |-> TRUE,
   unlockedAt |-> at]

\* arr.reverse()
Reverse(arr) == [i \in 1..Len(arr) |-> arr[Len(arr) + 1 - i]]

\* what the evaluator stored the day before day d: for no session, and for
\* 100 minutes on each of three days
EarlierBadges(d) ==
  {updatedBadges(<<>>, calculateStats(RunInput(d - 1, n, 100), d - 1), d - 1) :
     n \in {0, 3}}

\* the badge stores the evaluator may find: none, one it stored before, and
\* such a one reordered, cut short, or with a badge of an unknown id
BadgeStoreInputs(d) ==
  {<<>>} \cup
  UNION {{p, Reverse(p), SubSeq(p, 1, 5), Append(p, LegacyBadge(d - 1))} :
           p \in EarlierBadges(d)}

InitBadges ==
  /\ now \in RefDays
  /\ sessions \in BadgeSessionInputs(Today(now))
  /\ stats = calculateStats(sessions, now)
  /\ store = sessions
  /\ prevBadges \in BadgeStoreInputs(Today(now))
  /\ badgeStore = prevBadges
  /\ sessionsItem = "array"
  /\ badgesItem = "array"
  /\ nextId = 1
  /\ activeTab = "badges"
  /\ newBadges = <<>>
  /\ heatmapData = <<>>
  /\ jsonData = MalformedText
  /\ importResult = FALSE
  /\ form = DefaultForm
  /\ walk = NoWalk
  /\ pc = "input"

\* the useMemo of a BadgeSystem that is mounted with these sessions and stats
EvaluateBadges ==
  /\ pc = "input"
  /\ Evaluate(stats, newBadges)
  /\ pc' = "evaluated"
  /\ UNCHANGED <<now, store, sessionsItem, nextId, sessions, stats, activeTab,
                 heatmapData, ioVars>>

NextBadges == EvaluateBadges

SpecBadges == InitBadges /\ [][NextBadges]_vars

(***************************************************************************)
(* The badge evaluator run twice: the badges tab is left and opened again  *)
(***************************************************************************)
\* the BadgeSystem mounted again, its newBadges state empty, with the sessions
\* it had or with the ones the overview tab left in the store meanwhile
RemountBadges ==
  /\ pc = "evaluated"
  /\ \E arr \in BadgeSessionInputs(Today(now)) :
       /\ sessions' = arr
       /\ store' = arr
       /\ stats' = calculateStats(arr, now)
  /\ Evaluate(stats', <<>>)
  /\ pc' = "remounted"
  /\ UNCHANGED <<now, sessionsItem, nextId, activeTab, heatmapData, ioVars>>

NextRemount == EvaluateBadges \/ RemountBadges

SpecRemount == InitBadges /\ [][NextRemount]_vars

(***************************************************************************)
(* The store adapter applied to what localStorage may hold                 *)
(***************************************************************************)
\* the session arrays the store may hold: a session on each of the last days
StoredSessionInputs(d) == {RunInput(d, n, 30) : n \in 0..MaxCreated}

\* the badge arrays the store may hold: none, or what the evaluator stored
StoredBadgeInputs(d) == {<<>>} \cup EarlierBadges(d)

\* the sessions and the badges properties of the documents handed to importData
SessionFieldInputs(d) ==
  {NoField, OtherField, ArrayField(<<>>),
   stringifyValue(JSONArray(<<InputSession(0, d - 1, 45)>>), SessionKeys)}

BadgeFieldInputs(d) ==
  {NoField, OtherField, ArrayField(<<>>),
   stringifyValue(JSONArray(<<LegacyBadge(d - 1)>>), BadgeKeys)}

\* the texts handed to importData
ImportTexts(d) ==
  {MalformedText, NullText, ScalarText} \cup
  {ObjectText(sessionsField, badgesField) :
     sessionsField \in SessionFieldInputs(d),
     badgesField \in BadgeFieldInputs(d)}

\* before loadData has run; localStorage fails for both keys or for neither,
\* and an array is held under a key only when the item is one
InitStorage ==
  /\ now \in RefDays
  /\ sessionsItem \in ItemKinds
  /\ badgesItem \in ItemKinds
  /\ (sessionsItem = "unavailable") <=> (badgesItem = "unavailable")
  /\ store \in IF sessionsItem = "array"
                THEN StoredSessionInputs(Today(now)) ELSE {<<>>}
  /\ badgeStore \in IF badgesItem = "array"
                     THEN StoredBadgeInputs(Today(now)) ELSE {<<>>}
  /\ jsonData \in ImportTexts(Today(now))
  /\ importResult = FALSE
  /\ form = DefaultForm
  /\ walk = NoWalk
  /\ prevBadges = <<>>
  /\ nextId = 1
  /\ sessions = <<>>
  /\ stats = ZeroStats
  /\ activeTab = "overview"
  /\ newBadges = <<>>
  /\ heatmapData = <<>>
  /\ pc = "input"

\* loadData() of the mount effect: sessions.reduce of calculateStats throws
\* when loadSessions returned something that is no array
LoadData ==
  /\ pc = "input"
  /\ IF loadSessions.isArray
     THEN /\ sessions' = loadSessions.items
          /\ stats' = calculateStats(sessions', now)
          /\ pc' = "loaded"
     ELSE /\ pc' = "fault"
          /\ UNCHANGED <<sessions, stats>>
  /\ UNCHANGED <<now, store, badgeStore, sessionsItem, badgesItem, nextId,
                 activeTab, newBadges, heatmapData, ioVars>>

\* handleExportData: the text of the download
ExportData ==
  /\ pc = "input"
  /\ jsonData' = exportData
  /\ pc' = "exported"
  /\ UNCHANGED <<now, store, badgeStore, sessionsItem, badgesItem, nextId,
                 sessions, stats, activeTab, newBadges, heatmapData,
                 prevBadges, importResult, form, walk>>

\* importData(jsonData), of a text handed in or of the one just exported
ImportData ==
  /\ pc \in {"input", "exported"}
  /\ importData(jsonData)
  /\ pc' = IF pc = "input" THEN "imported" ELSE "roundtrip"
  /\ UNCHANGED <<now, nextId, sessions, stats, activeTab, newBadges,
                 heatmapData, prevBadges, jsonData, form, walk>>

NextStorage ==
  \/ LoadData
  \/ ExportData
  \/ ImportData

SpecStorage == InitStorage /\ [][NextStorage]_vars

(***************************************************************************)
(* Properties of the badge store                                           *)
(***************************************************************************)
\* the stored badge with the given id is unlocked
StoredUnlocked(badges, id) ==
  \E i \in 1..Len(badges) : badges[i].id = id /\ badges[i].unlocked

\* the unlockedAt values the store holds for the given id
StoredUnlockedAt(badges, id) ==
  {badges[i].unlockedAt : i \in {j \in 1..Len(badges) :
      badges[j].id = id /\ "unlockedAt" \in DOMAIN badges[j]}}

CatalogIds == {BADGE_DEFINITIONS[k].id : k \in 1..Len(BADGE_DEFINITIONS)}

\* C1: a badge that is stored unlocked is stored unlocked after every step,
\* whatever has become of the statistic that unlocked it.
C1_UnlockMonotonic ==
  [][\A id \in CatalogIds :
       StoredUnlocked(badgeStore, id) => StoredUnlocked(badgeStore', id)]_vars

\* the badges tab is open, its evaluator has run on statistics of a new week
\* with no minute in it, and the 5-hour badge of last week's session stands
C1_Witness ==
  /\ activeTab = "badges"
  /\ StoredUnlocked(badgeStore, "time-300")
  /\ stats.minutesThisWeek = 0
  /\ stats.totalMinutes >= 300
  /\ stats = calculateStats(store, now)

\* C2: the step that unlocks a badge stamps it with the time of that step, and
\* no later step changes the stamp of an unlocked badge.
C2_UnlockedAtWrittenOnce ==
  [][\A id \in CatalogIds :
       /\ StoredUnlocked(badgeStore, id) =>
            StoredUnlockedAt(badgeStore', id) = StoredUnlockedAt(badgeStore, id)
       /\ ~StoredUnlocked(badgeStore, id) /\ StoredUnlocked(badgeStore', id) =>
            StoredUnlockedAt(badgeStore', id) = {now'}]_vars

\* the evaluator has run on a later day than the one that unlocked the 5-hour
\* badge, on statistics that no longer reach it
C2_Witness ==
  /\ activeTab = "badges"
  /\ \E at \in StoredUnlockedAt(badgeStore, "time-300") : at < now
  /\ stats.minutesThisWeek < 300
  /\ stats = calculateStats(store, now)
  /\ Len(store) > 0

(***************************************************************************)
(* Properties of calculateStreaks and calculateStats                       *)
(***************************************************************************)
\* the calendar days that have a session
SessionDays(arr) == {parseISO(arr[i].date) : i \in 1..Len(arr)}

\* the length of the run of consecutive session days that ends on day d
RunEndingAt(days, d) ==
  Cardinality({k \in 0..Cardinality(days) :
                 \A j \in 0..k : (d - j) \in days})

\* the length of the longest run of consecutive session days
LongestRun(days) ==
  IF days = {} THEN 0
  ELSE CHOOSE n \in 1..Cardinality(days) :
         /\ \E d \in days : RunEndingAt(days, d) = n
         /\ \A d \in days : RunEndingAt(days, d) <= n

\* C3: with no session today and one yesterday, currentStreak is the length
\* of the run of session days that ends yesterday.
C3_GracePeriod ==
  (/\ pc = "stats"
   /\ Today(now) \notin SessionDays(sessions)
   /\ (Today(now) - 1) \in SessionDays(sessions))
  => stats.currentStreak = RunEndingAt(SessionDays(sessions), Today(now) - 1)

\* C4: with a session today, currentStreak is the number of consecutive days
\* with a session counted back from today, each day once.
C4_StreakFromToday ==
  (pc = "stats" /\ Today(now) \in SessionDays(sessions))
  => stats.currentStreak = RunEndingAt(SessionDays(sessions), Today(now))

\* two sessions today, one yesterday, none the day before, some earlier
C4_Witness ==
  /\ pc = "stats"
  /\ Cardinality({i \in 1..Len(sessions) :
                    parseISO(sessions[i].date) = Today(now)}) = 2
  /\ (Today(now) - 1) \in SessionDays(sessions)
  /\ (Today(now) - 2) \notin SessionDays(sessions)
  /\ (Today(now) - 3) \in SessionDays(sessions)
  /\ stats.currentStreak = 2

\* C5: with no session today and none yesterday, currentStreak is 0.
C5_NoRecentSession ==
  (/\ pc = "stats"
   /\ Today(now) \notin SessionDays(sessions)
   /\ (Today(now) - 1) \notin SessionDays(sessions))
  => stats.currentStreak = 0

\* a run of three days that ended the day before yesterday
C5_Witness ==
  /\ pc = "stats"
  /\ Today(now) \notin SessionDays(sessions)
  /\ (Today(now) - 1) \notin SessionDays(sessions)
  /\ stats.longestStreak >= 3
  /\ stats.currentStreak = 0

\* C6: longestStreak is the length of the longest run of consecutive session
\* days of the whole history.
C6_LongestStreak ==
  pc = "stats" => stats.longestStreak = LongestRun(SessionDays(sessions))

\* a run of four days, a gap, and a run of two days that ends today
C6_Witness ==
  /\ pc = "stats"
  /\ SessionDays(sessions) =
       {Today(now) - k : k \in {0, 1, 3, 4, 5, 6}}
  /\ stats.longestStreak = 4
  /\ stats.currentStreak = 2

RECURSIVE SumFromEnd(_, _)
\* the durations of the first n sessions, added from the last one
SumFromEnd(arr, n) ==
  IF n = 0 THEN 0 ELSE SumFromEnd(arr, n - 1) + arr[n].duration

\* C10: of a session list that is not empty, totalSessions is the length,
\* totalMinutes the sum of the durations and averageSessionDuration the
\* integer nearest to their quotient, the upper one of two equally near.
C10_Totals ==
  (pc = "stats" /\ Len(sessions) > 0)
  => /\ stats.totalSessions = Len(sessions)
     /\ stats.totalMinutes = SumFromEnd(sessions, Len(sessions))
     /\ 2 * stats.averageSessionDuration * stats.totalSessions
          <= 2 * stats.totalMinutes + stats.totalSessions
     /\ 2 * stats.totalMinutes + stats.totalSessions
          < 2 * (stats.averageSessionDuration + 1) * stats.totalSessions

\* two sessions, of 30 and of 45 minutes
C10_Witness ==
  /\ pc = "stats"
  /\ {sessions[i].duration : i \in 1..Len(sessions)} = {30, 45}
  /\ stats.totalSessions = 2
  /\ stats.totalMinutes = 75
  /\ stats.averageSessionDuration = 38

(***************************************************************************)
(* Properties of generateHeatmapData                                       *)
(***************************************************************************)
\* C7: the heatmap has 365 entries, one for each day from 364 days before
\* the day of the call up to that day, in the order of the calendar.
C7_HeatmapWindow ==
  pc = "heatmap" =>
    /\ Len(heatmapData) = 365
    /\ parseISO(heatmapData[1].date) = Today(now) - 364
    /\ parseISO(heatmapData[Len(heatmapData)].date) = Today(now)
    /\ \A k \in 1..(Len(heatmapData) - 1) :
         parseISO(heatmapData[k + 1].date) = parseISO(heatmapData[k].date) + 1
    /\ \A k \in 1..Len(heatmapData) :
         formatDate(parseISO(heatmapData[k].date)) = heatmapData[k].date

\* a heatmap of three sessions: one today, one on the first day of the
\* window and one on the day before it
C7_Witness ==
  /\ pc = "heatmap"
  /\ {parseISO(sessions[i].date) : i \in 1..Len(sessions)} =
       {Today(now), Today(now) - 364, Today(now) - 365}
  /\ Len(heatmapData) = 365

RECURSIVE SumCounts(_, _, _)
\* the counts of the entries lo..hi of a heatmap added up, by halves
SumCounts(data, lo, hi) ==
  IF lo > hi THEN 0
  ELSE IF lo = hi THEN data[lo].count
  ELSE LET mid == (lo + hi) \div 2
       IN SumCounts(data, lo, mid) + SumCounts(data, mid + 1, hi)

\* C8: the count of an entry is the number of sessions of its date, and the
\* counts add up to the number of sessions dated within the window.
C8_HeatmapCounts ==
  pc = "heatmap" =>
    /\ \A k \in 1..Len(heatmapData) :
         heatmapData[k].count =
           Cardinality({i \in 1..Len(sessions) :
                          sessions[i].date = heatmapData[k].date})
    /\ SumCounts(heatmapData, 1, Len(heatmapData)) =
         Cardinality({i \in 1..Len(sessions) :
                        /\ parseISO(sessions[i].date) >= Today(now) - 364
                        /\ parseISO(sessions[i].date) <= Today(now)})

\* sessions of 30 and of 45 minutes on the first day of the window and one
\* on the day before it
C8_Witness ==
  /\ pc = "heatmap"
  /\ Len(sessions) = 3
  /\ \E i, j, k \in 1..3 :
       /\ parseISO(sessions[i].date) = Today(now) - 364
       /\ parseISO(sessions[j].date) = Today(now) - 364
       /\ sessions[i].duration = 30
       /\ sessions[j].duration = 45
       /\ parseISO(sessions[k].date) = Today(now) - 365
  /\ heatmapData[1].count = 2
  /\ SumCounts(heatmapData, 1, Len(heatmapData)) = 2

\* C9: the level of an entry is 0, 3, 4 or 5 for a count of 0, 1, 2 or of 3
\* and more.
C9_HeatmapLevels ==
  pc = "heatmap" =>
    \A k \in 1..Len(heatmapData) :
      LET e == heatmapData[k]
      IN /\ e.count = 0 => e.level = 0
         /\ e.count = 1 => e.level = 3
         /\ e.count = 2 => e.level = 4
         /\ e.count >= 3 => e.level = 5
         /\ e.level \notin {1, 2}

\* three sessions today and none yesterday
C9_Witness ==
  /\ pc = "heatmap"
  /\ heatmapData[365].count = 3
  /\ heatmapData[365].level = 5
  /\ heatmapData[364].level = 0

(***************************************************************************)
(* Properties of calculateStats: the empty collection, the week, the month *)
(***************************************************************************)
\* the fields of UserStats
StatsFields ==
  {"totalSessions", "totalMinutes", "currentStreak", "longestStreak",
   "averageSessionDuration", "sessionsThisWeek", "sessionsThisMonth",
   "minutesThisWeek", "minutesThisMonth"}

\* C11: calculateStats of the empty session collection is a UserStats whose
\* nine fields are all 0.
C11_EmptyStats ==
  (pc = "stats" /\ sessions = <<>>) =>
    /\ DOMAIN stats = StatsFields
    /\ \A f \in StatsFields : stats[f] = 0

C11_Witness ==
  /\ pc = "stats"
  /\ Len(sessions) = 0
  /\ stats.averageSessionDuration = 0
  /\ stats.longestStreak = 0

\* the date string lies in the week, Monday to Sunday, that holds the day of t
\* (day 4, 1970-01-05, was a Monday)
InWeekOf(dateString, t) ==
  \E monday \in (Today(t) - 6)..Today(t) :
    /\ (monday - 4) % 7 = 0
    /\ monday <= parseISO(dateString)
    /\ parseISO(dateString) <= monday + 6

\* the date string has the year and the month of the day of t
InMonthOf(dateString, t) ==
  /\ dateString[1] = formatDate(Today(t))[1]
  /\ dateString[2] = formatDate(Today(t))[2]

RECURSIVE SumAt(_, _)
\* the durations of the sessions at the given indices, added up
SumAt(arr, indices) ==
  IF indices = {} THEN 0
  ELSE LET i == CHOOSE x \in indices : TRUE
       IN arr[i].duration + SumAt(arr, indices \ {i})

\* C12: sessionsThisWeek and minutesThisWeek count, and add up the durations
\* of, exactly the sessions dated from the Monday to the Sunday of the week of
\* now; sessionsThisMonth and minutesThisMonth those dated in now's month.
C12_WeekAndMonth ==
  pc = "stats" =>
    LET week == {i \in 1..Len(sessions) : InWeekOf(sessions[i].date, now)}
        month == {i \in 1..Len(sessions) : InMonthOf(sessions[i].date, now)}
    IN /\ stats.sessionsThisWeek = Cardinality(week)
       /\ stats.minutesThisWeek = SumAt(sessions, week)
       /\ stats.sessionsThisMonth = Cardinality(month)
       /\ stats.minutesThisMonth = SumAt(sessions, month)

\* on Tuesday 2024-01-02: sessions on Sunday 2023-12-31 (outside), on Monday
\* 2024-01-01 (the first day of both) and on Sunday 2024-01-07 (the last day
\* of the week)
C12_Witness ==
  /\ pc = "stats"
  /\ now = RefDayA
  /\ SessionDays(sessions) = {RefDayA - 2, RefDayA - 1, RefDayA + 5}
  /\ stats.sessionsThisWeek = 2
  /\ stats.sessionsThisMonth = 2
  /\ stats.minutesThisWeek = 75
  /\ stats.minutesThisMonth = 75

(***************************************************************************)
(* Properties of the badge evaluator                                       *)
(***************************************************************************)
\* the catalog badge is eligible: its statistic has reached its requirement
Eligible(badgeDef, st) ==
  \/ badgeDef.type = "streak" /\ st.currentStreak >= badgeDef.requirement
  \/ badgeDef.type = "time" /\ st.minutesThisWeek >= badgeDef.requirement
  \/ badgeDef.type = "content" /\ st.totalSessions >= badgeDef.requirement

\* C13: a streak badge is eligible iff currentStreak, a time badge iff
\* minutesThisWeek and a content badge iff totalSessions has reached its
\* requirement, and a badge that was not stored unlocked is unlocked after an
\* evaluation iff it is eligible in it.
C13_Eligibility ==
  pc = "evaluated" =>
    \A k \in 1..Len(BADGE_DEFINITIONS) :
      ~StoredUnlocked(prevBadges, BADGE_DEFINITIONS[k].id) =>
        (StoredUnlocked(badgeStore, BADGE_DEFINITIONS[k].id)
           <=> Eligible(BADGE_DEFINITIONS[k], stats))

\* ten sessions of 30 minutes on ten days in a row: 300 minutes in all but
\* fewer in the week, so the time badge stays locked beside new streak and
\* content badges
C13_Witness ==
  /\ pc = "evaluated"
  /\ stats.totalMinutes >= 300
  /\ stats.minutesThisWeek < 300
  /\ ~StoredUnlocked(prevBadges, "streak-7")
  /\ StoredUnlocked(badgeStore, "streak-7")
  /\ StoredUnlocked(badgeStore, "sessions-10")
  /\ ~StoredUnlocked(badgeStore, "time-300")

\* C14: the badges an evaluation reports as newly unlocked are exactly the
\* catalog badges that are eligible in it and were not stored unlocked before;
\* each is stored unlocked with unlockedAt the time of the evaluation.
C14_NewlyUnlocked ==
  pc = "evaluated" =>
    /\ Range(newBadges) =
         {BADGE_DEFINITIONS[k].id : k \in
            {j \in 1..Len(BADGE_DEFINITIONS) :
               /\ Eligible(BADGE_DEFINITIONS[j], stats)
               /\ ~StoredUnlocked(prevBadges, BADGE_DEFINITIONS[j].id)}}
    /\ \A id \in Range(newBadges) :
         /\ StoredUnlocked(badgeStore, id)
         /\ StoredUnlockedAt(badgeStore, id) = {now}

\* streak-3 was stored unlocked and is eligible again, streak-7 is new
C14_Witness ==
  /\ pc = "evaluated"
  /\ StoredUnlocked(prevBadges, "streak-3")
  /\ stats.currentStreak >= 7
  /\ includes(newBadges, "streak-7")
  /\ ~includes(newBadges, "streak-3")

\* C15: whatever the badge store held, the evaluator's badges are one entry
\* for each catalog definition, with the ids of the catalog in its order.
C15_CatalogShape ==
  pc = "evaluated" =>
    /\ Len(badgeStore) = Len(BADGE_DEFINITIONS)
    /\ \A k \in 1..Len(BADGE_DEFINITIONS) :
         badgeStore[k].id = BADGE_DEFINITIONS[k].id

\* the store held a badge of an unknown id behind the twelve of the catalog
C15_Witness ==
  /\ pc = "evaluated"
  /\ Len(prevBadges) = Len(BADGE_DEFINITIONS) + 1
  /\ prevBadges[Len(prevBadges)].id \notin CatalogIds
  /\ Len(badgeStore) = Len(BADGE_DEFINITIONS)

\* C16: in the badges the evaluator stores, starting from an empty store, a
\* badge has an unlockedAt iff it is unlocked.
C16_UnlockedAtIffUnlocked ==
  \A i \in 1..Len(badgeStore) :
    ("unlockedAt" \in DOMAIN badgeStore[i]) <=> badgeStore[i].unlocked

\* the store holds an unlocked badge with its time and a locked one without
C16_Witness ==
  /\ pc = "app"
  /\ \E i \in 1..Len(badgeStore) :
       badgeStore[i].unlocked /\ "unlockedAt" \in DOMAIN badgeStore[i]
  /\ \E i \in 1..Len(badgeStore) :
       ~badgeStore[i].unlocked /\ "unlockedAt" \notin DOMAIN badgeStore[i]

(***************************************************************************)
(* Properties of the store adapter                                         *)
(***************************************************************************)
\* the text is one of an object whose sessions and badges are both arrays
BothArrays(text) ==
  /\ text.kind = "object"
  /\ text.sessions.kind = "array"
  /\ text.badges.kind = "array"

\* C17: importData accepts a text only when its sessions and its badges are
\* both arrays; otherwise it rejects it and neither the stored sessions nor
\* the stored badges change.
C17_AllOrNothing ==
  [][(pc = "input" /\ pc' = "imported") =>
       /\ importResult' => BothArrays(jsonData)
       /\ ~BothArrays(jsonData) =>
            /\ ~importResult'
            /\ loadSessions' = loadSessions
            /\ loadBadges' = loadBadges]_vars

\* C18: of a text that cannot be parsed importData returns false, and the
\* stored sessions and badges are what they were.
C18_ParseFailure ==
  [][(pc = "input" /\ pc' = "imported" /\ jsonData.kind = "malformed") =>
       /\ importResult' = FALSE
       /\ store' = store /\ sessionsItem' = sessionsItem
       /\ badgeStore' = badgeStore /\ badgesItem' = badgesItem]_vars

\* a malformed text was imported over stored sessions and stored badges
C18_Witness ==
  /\ pc = "imported"
  /\ jsonData.kind = "malformed"
  /\ importResult = FALSE
  /\ Len(store) > 0
  /\ Len(badgeStore) > 0

\* C19: importData of the text exportData returned succeeds, and loadSessions
\* and loadBadges return after it what they returned before the export.
C19_RoundTrip ==
  [][(pc = "exported" /\ pc' = "roundtrip") =>
       /\ importResult' = TRUE
       /\ loadSessions' = loadSessions
       /\ loadBadges' = loadBadges]_vars

\* the export of stored sessions and of stored badges, locked and unlocked,
\* was imported
C19_Witness ==
  /\ pc = "roundtrip"
  /\ importResult
  /\ jsonData.sessions.kind = "array" /\ Len(jsonData.sessions.items) > 0
  /\ Len(store) = Len(jsonData.sessions.items)
  /\ \E i \in 1..Len(badgeStore) : badgeStore[i].unlocked
  /\ \E i \in 1..Len(badgeStore) : ~badgeStore[i].unlocked

\* localStorage fails for the key or holds no JSON text of an array under it
BadItem(item) == item \in {"unavailable", "garbage", "nonarray"}

\* C20: when localStorage is unavailable or holds malformed data, loadData
\* does not fault: loadSessions has returned the empty array, the statistics
\* are those of the empty collection, and loadBadges returns the empty array.
C20_LoadsEmpty ==
  pc \in {"loaded", "fault"} =>
    /\ BadItem(sessionsItem) =>
         /\ pc = "loaded"
         /\ loadSessions = JSONArray(<<>>)
         /\ sessions = <<>>
         /\ stats = ZeroStats
    /\ BadItem(badgesItem) => loadBadges = JSONArray(<<>>)

(***************************************************************************)
(* Properties of the session logger                                        *)
(***************************************************************************)
\* the minutes from 00:00 to the time 'HH:MM'
MinutesOfDay(time) == time[1] * 60 + time[2]

\* C21: a form whose duration is not positive is rejected, at creation and at
\* edit, so every stored session has a positive duration, and it is the
\* minutes from its startTime to its endTime.
C21_PositiveDuration ==
  \A i \in 1..Len(store) :
    /\ store[i].duration > 0
    /\ store[i].duration =
         MinutesOfDay(store[i].endTime) - MinutesOfDay(store[i].startTime)

\* two sessions are stored, one of 90 and one of 300 minutes
C21_Witness ==
  /\ Len(store) = 2
  /\ \E i \in 1..Len(store) : store[i].duration = 90
  /\ \E i \in 1..Len(store) : store[i].duration = 300

\* C22: once a create, an edit or a delete has changed the stored sessions,
\* the sessions and the stats in use are those of the store, and every badge
\* whose requirement those stats meet is stored unlocked.
C22_Recomputed ==
  [][store' # store =>
       /\ sessions' = store'
       /\ stats' = calculateStats(store', now')
       /\ \A k \in 1..Len(BADGE_DEFINITIONS) :
            Eligible(BADGE_DEFINITIONS[k], stats') =>
              StoredUnlocked(badgeStore', BADGE_DEFINITIONS[k].id)]_vars

(***************************************************************************)
(* Properties of calculateStats: purity, and the order of the streaks      *)
(***************************************************************************)
\* the list with its first element moved to the end
Rotate(arr) == IF arr = <<>> THEN <<>> ELSE Append(Tail(arr), arr[1])

\* the list with its first two elements exchanged
SwapFirstTwo(arr) ==
  IF Len(arr) < 2 THEN arr
  ELSE <<arr[2], arr[1]>> \o SubSeq(arr, 3, Len(arr))

\* the same sessions listed in other orders
Reorderings(arr) ==
  {Reverse(arr), Rotate(arr), SwapFirstTwo(arr), Rotate(Rotate(arr)),
   Reverse(SwapFirstTwo(arr))}

C27_StreakOrder ==
  pc = "stats" =>
    /\ 0 <= stats.currentStreak
    /\ stats.currentStreak <= stats.longestStreak
    /\ stats.longestStreak <= Cardinality(SessionDays(sessions))
    /\ Cardinality(SessionDays(sessions)) <= stats.totalSessions

\* a run that ends today, a longer one before it, and two sessions on one day
C27_Witness ==
  /\ pc = "stats"
  /\ 0 < stats.currentStreak
  /\ stats.currentStreak < stats.longestStreak
  /\ stats.longestStreak < Cardinality(SessionDays(sessions))
  /\ Cardinality(SessionDays(sessions)) < stats.totalSessions

\* C28: the backward walk that computes currentStreak terminates for every
\* finite session list, after at most (number of distinct session dates + 1)
\* day checks, and leaves the streak that calculateStreaks returns.
C28_WalkTerminates ==
  /\ <>(pc = "done")
  /\ [](walk.checks <= Cardinality(SessionDays(sessions)) + 1)
  /\ [](pc = "done" =>
          walk.currentStreak = calculateStreaks(sessions, now).currentStreak)

\* a walk over every session date: each day counted, one more check to break
C28_Witness ==
  /\ pc = "done"
  /\ walk.currentStreak >= 2
  /\ walk.checks = Cardinality(SessionDays(sessions)) + 1

(***************************************************************************)
(* Properties of an edit                                                   *)
(***************************************************************************)
\* a step that rewrites a stored session: no session is created or deleted
EditStep ==
  /\ nextId' = nextId
  /\ Len(store') = Len(store)
  /\ store' # store

\* C24: an edit through the session logger leaves the id, the date and the
\* createdAt of the edited session as they were, writes its other fields
\* together, and changes no other stored session.
C24_EditFrame ==
  [][EditStep =>
       \E i \in 1..Len(store) :
         /\ \A j \in 1..Len(store) : j # i => store'[j] = store[j]
         /\ store'[i].id = store[i].id
         /\ store'[i].date = store[i].date
         /\ store'[i].createdAt = store[i].createdAt
         /\ store'[i].duration =
              calculateDuration(store'[i].startTime, store'[i].endTime)
         /\ DOMAIN store'[i] = DOMAIN store[i]]_vars

\* the one session ever created unlocked the 300 minutes badge and lasts 90
\* minutes now: it was edited
C24_Witness ==
  /\ nextId = 2
  /\ Len(store) = 1
  /\ store[1].id = 1
  /\ store[1].duration = 90
  /\ StoredUnlocked(badgeStore, "time-300")
  /\ store[1].createdAt = StartDay
  /\ store[1].date = formatDate(StartDay)

(***************************************************************************)
(* Properties of calculateDuration                                         *)
(***************************************************************************)
\* the time 'HH:MM' a is earlier in the day than the time b
Earlier(a, b) == a[1] < b[1] \/ (a[1] = b[1] /\ a[2] < b[2])

\* C25: calculateDuration is the end in minutes of the day less the start in
\* minutes of the day: positive for an end after the start, zero for equal
\* times, negative for an end before the start, and 90 for 09:00 to 10:30.
C25_Duration ==
  pc = "duration" =>
    /\ form.duration =
         (form.endTime[1] * 60 + form.endTime[2])
           - (form.startTime[1] * 60 + form.startTime[2])
    /\ Earlier(form.startTime, form.endTime) => form.duration > 0
    /\ form.startTime = form.endTime => form.duration = 0
    /\ Earlier(form.endTime, form.startTime) => form.duration < 0
    /\ (form.startTime = <<9, 0>> /\ form.endTime = <<10, 30>>) =>
         form.duration = 90

\* the duration from 23:30 to 00:30 has been computed: 60 minutes the wrong
\* way round
C25_Witness ==
  /\ pc = "duration"
  /\ form.startTime = <<23, 30>>
  /\ form.endTime = <<0, 30>>
  /\ form.duration = 0 - 1380

C29_ThresholdOrder ==
  \A a \in 1..Len(BADGE_DEFINITIONS), b \in 1..Len(BADGE_DEFINITIONS) :
    (/\ BADGE_DEFINITIONS[a].type = BADGE_DEFINITIONS[b].type
     /\ BADGE_DEFINITIONS[a].requirement < BADGE_DEFINITIONS[b].requirement
     /\ StoredUnlocked(badgeStore, BADGE_DEFINITIONS[b].id))
    => StoredUnlocked(badgeStore, BADGE_DEFINITIONS[a].id)

\* the 10-hour and the 5-hour badge stand unlocked, the 15-hour one locked,
\* after the week's minutes fell below 10 hours and the badges were evaluated
C29_Witness ==
  /\ activeTab = "badges"
  /\ stats.minutesThisWeek < 600
  /\ StoredUnlocked(badgeStore, "time-600")
  /\ StoredUnlocked(badgeStore, "time-300")
  /\ ~StoredUnlocked(badgeStore, "time-900")

\* C30: over evaluations whose result is saved each time, a badge id is
\* reported as newly unlocked in at most one of them: an evaluation reports
\* only ids that were not stored unlocked and stores them unlocked, so none
\* that an earlier one reported; and an evaluation on unchanged statistics
\* reports nothing and leaves the stored badges as they are.
C30_ReportedOnce ==
  [][/\ pc' # pc =>
          \A id \in Range(newBadges') :
            /\ ~StoredUnlocked(loadBadges.items, id)
            /\ StoredUnlocked(loadBadges'.items, id)
     /\ (pc = "evaluated" /\ pc' = "remounted") =>
          Range(newBadges') \cap Range(newBadges) = {}
     /\ (pc = "evaluated" /\ pc' = "remounted" /\ stats' = stats) =>
          /\ newBadges' = <<>>
          /\ loadBadges' = loadBadges]_vars

\* after the second evaluation the 3-day badge, which the first one unlocked
\* and which is still eligible, is stored unlocked and nothing was reported
C30_Witness ==
  /\ pc = "remounted"
  /\ newBadges = <<>>
  /\ Eligible(BADGE_DEFINITIONS[1], stats)
  /\ ~StoredUnlocked(prevBadges, "streak-3")
  /\ StoredUnlocked(badgeStore, "streak-3")

====
